---------------------------- MODULE Spec2Model ----------------------------
(* Model of sollama's SearchEngine (src/src/search.rs): the bounded,       *)
(* rate-limited, retrying multi-URL fetcher fetch_all / fetch_content and  *)
(* the single-request search with its candidate-URL extraction.            *)
(*                                                                         *)
(* fetch_all is one future: its per-URL futures are polled by              *)
(* buffer_unordered on one task, so the atomic steps of the model are the  *)
(* stretches of code between two await points.                             *)
EXTENDS Integers, Sequences, FiniteSets, TLC

\* ------------------------------------------------------------------ bounds
MaxUrls == 3
MaxConcurrent == 3
MaxBurst == 2
MaxRetries == 3

\* the list of n URLs handed to fetch_all; a URL may occur twice in it. The
\* fetcher never looks into a URL, so one list of each length stands for all
UrlList(n) == [k \in 1..n |-> IF k % 2 = 1 THEN "u1" ELSE "u2"]

VARIABLES
    config,             \* ScraperConfig: concurrent_requests, max_retries, burst_size
    urls,               \* the argument of fetch_all
    phase,              \* fetch_all: "idle", "running", "returned"
    next_url,           \* position of stream::iter(urls): next URL to be pulled
    pc,                 \* per URL task: where its future is suspended
    retries,            \* fetch_content: local `retries`
    last_error,         \* fetch_content: local `last_error` is Some
    attempts,           \* calls of try_fetch_content made for the URL
    sleeps,             \* backoff sleeps of fetch_content, in seconds, in order
    acquires,           \* permits the task acquired from rate_limiter
    paces,              \* pacing delays (1 / requests_per_second) the task waited
    holds,              \* the task's `_permit` is alive
    available_permits,  \* rate_limiter: permits in the Semaphore
    waiters,            \* rate_limiter: FIFO queue of tasks blocked in acquire()
    result,             \* per URL task: "none", "ok" (Ok(content)), "err" (Err)
                        \* is what fetch_content returned
    fetches,            \* outputs of the finished tasks, in completion order
    returned,           \* value returned by fetch_all
    spc,                \* search: "idle", "sleeping", "sending", "reading", "done"
    requests_sent,      \* search: GET requests sent for the results page
    search_failure,     \* search: "none", "send" (send failed), "text" (body failed)
    results_page,       \* search: the parsed results page
    search_ret,         \* value returned by search
    searches,           \* calls of search that have returned
    clock,              \* seconds elapsed since the SearchEngine was built
    web,                \* the documents the fetched URLs may serve
    href_in,            \* clean_google_url: its argument
    clean_ret,          \* clean_google_url: the value returned
    scrape_doc,         \* ContentScraper::extract: the parsed document
    scrape_ret,         \* ContentScraper::extract: the value returned
    text_ret            \* SearchEngine::extract_text: the value returned

fetchVars == <<config, urls, phase, next_url, pc, retries, last_error, attempts,
               sleeps, acquires, paces, holds, available_permits, waiters,
               result, fetches, returned>>

searchVars == <<spc, requests_sent, search_failure, results_page, search_ret,
                searches, clock>>

pageVars == <<web, href_in, clean_ret, scrape_doc, scrape_ret, text_ret>>

vars == <<fetchVars, searchVars, pageVars>>

Tasks == 1..Len(urls)

RECURSIVE Pow2(_)
\* 2u64.pow(retries); u64 does not overflow below retries = 64
Pow2(k) == IF k = 0 THEN 1 ELSE 2 * Pow2(k - 1)

RECURSIVE SumSeq(_)
SumSeq(s) == IF s = <<>> THEN 0 ELSE Head(s) + SumSeq(Tail(s))

RECURSIVE SeqsUpTo(_, _)
\* all sequences over S of length at most k
SeqsUpTo(S, k) ==
    IF k = 0 THEN {<<>>}
    ELSE LET shorter == SeqsUpTo(S, k - 1)
         IN  shorter \cup {Append(s, x) : s \in {t \in shorter : Len(t) = k - 1}, x \in S}

\* ------------------------------------------------------ fetch_all machinery

\* tasks pulled from the stream and not yet finished (in_progress_queue)
InProgress == {i \in Tasks : pc[i] \notin {"pending", "done"}}

\* one future too many in the queue
SlotFree_OffByOne == Cardinality(InProgress) <= config.concurrent_requests

\* buffer_unordered(concurrent_requests): pull while the queue is shorter than max
SlotFree == Cardinality(InProgress) < config.concurrent_requests

\* one attempt too many
LoopCond_OffByOne(r) == r <= config.max_retries

\* `while retries < self.config.max_retries`
LoopCond(r) == r < config.max_retries

\* `if retries < self.config.max_retries` guarding the backoff sleep
SleepCond(r) == r < config.max_retries

\* retries counted from 0
BackoffDelay_FromZero(r) == Pow2(r - 1)

\* Duration::from_secs(2u64.pow(retries))
BackoffDelay(r) == Pow2(r)

\* Err(e) of try_fetch_content and of fetch_content
Failed == [ok |-> FALSE]

\* the match in the task body: Ok(content) => Some(content), Err(_) => None;
\* `task` records which future gave the output
TaskOutput(i, res) ==
    IF res.ok
    THEN [some |-> TRUE, task |-> i, url |-> res.val.url,
          content |-> res.val.content, metadata |-> res.val.metadata]
    ELSE [some |-> FALSE, task |-> i, url |-> urls[i]]

\* the failures kept in the list
Collect_KeepAll(fs) == fs

\* fetches.into_iter().filter_map(|x| x).collect()
Collect(fs) == SelectSeq(fs, LAMBDA f : f.some)

\* the permit released on the success path only
DropsPermit_OnlyOnSuccess(res) == res.ok

\* the permit is dropped on this exit of the task body
DropsPermit(res) == TRUE

\* SearchEngine::new(c) and the list us about to be handed to fetch_all
Constructed(c, us) ==
    /\ config = c
    /\ urls = us
    /\ phase = "idle"
    /\ next_url = 1
    /\ pc = [i \in Tasks |-> "pending"]
    /\ retries = [i \in Tasks |-> 0]
    /\ last_error = [i \in Tasks |-> FALSE]
    /\ attempts = [i \in Tasks |-> 0]
    /\ sleeps = [i \in Tasks |-> <<>>]
    /\ acquires = [i \in Tasks |-> 0]
    /\ paces = [i \in Tasks |-> 0]
    /\ holds = [i \in Tasks |-> FALSE]
    /\ available_permits = config.burst_size
    /\ waiters = <<>>
    /\ result = [i \in Tasks |-> "none"]
    /\ fetches = <<>>
    /\ returned = [done |-> FALSE, ok |-> FALSE, contents |-> <<>>]

FetchInit ==
    \E c \in [concurrent_requests : 0..MaxConcurrent,
               burst_size : 0..MaxBurst,
               max_retries : 0..MaxRetries] :
        \E n \in 0..MaxUrls : Constructed(c, UrlList(n))

\* ScraperConfig::default()
DefaultConfig == [concurrent_requests |-> 5, burst_size |-> 5, max_retries |-> 3]


\* fetch_all is called: the stream is built, nothing is polled yet
FetchAll ==
    /\ UNCHANGED <<searchVars, pageVars>>
    /\ phase = "idle"
    /\ phase' = "running"
    /\ UNCHANGED <<config, urls, next_url, pc, retries, last_error, attempts, sleeps,
                   acquires, paces, holds, available_permits, waiters, result,
                   fetches, returned>>

\* the task body without its acquire
Acquire_Skipped(i) ==
    /\ pc' = [pc EXCEPT ![i] = "pacing"]
    /\ UNCHANGED <<available_permits, holds, acquires, waiters>>

\* rate_limiter.acquire().await of task i: a free permit is taken at once,
\* otherwise the task joins the queue of waiters
Acquire(i) ==
    IF available_permits > 0
    THEN /\ available_permits' = available_permits - 1
         /\ holds' = [holds EXCEPT ![i] = TRUE]
         /\ acquires' = [acquires EXCEPT ![i] = @ + 1]
         /\ pc' = [pc EXCEPT ![i] = "pacing"]
         /\ UNCHANGED waiters
    ELSE /\ waiters' = Append(waiters, i)
         /\ pc' = [pc EXCEPT ![i] = "waiting"]
         /\ UNCHANGED <<available_permits, holds, acquires>>

\* buffer_unordered pulls the next URL and polls its future for the first
\* time, up to the first await that suspends it
StartTask(i) ==
    /\ UNCHANGED <<searchVars, pageVars>>
    /\ phase = "running"
    /\ i \in Tasks
    /\ i = next_url
    /\ SlotFree
    /\ next_url' = next_url + 1
    /\ Acquire(i)
    /\ UNCHANGED <<config, urls, phase, retries, last_error, attempts, sleeps, paces,
                   result, fetches, returned>>

\* a release that puts the permit back and wakes nobody
Finish_NoHandoff(i, res) ==
    /\ result' = [result EXCEPT ![i] = IF res.ok THEN "ok" ELSE "err"]
    /\ fetches' = Append(fetches, TaskOutput(i, res))
    /\ available_permits' = available_permits + 1
    /\ holds' = [holds EXCEPT ![i] = FALSE]
    /\ pc' = [pc EXCEPT ![i] = "done"]
    /\ UNCHANGED <<acquires, waiters>>

\* the task body ends with result res: its output is collected and `_permit`
\* goes out of scope; a released permit is handed to the first waiter
Finish(i, res) ==
    /\ result' = [result EXCEPT ![i] = IF res.ok THEN "ok" ELSE "err"]
    /\ fetches' = Append(fetches, TaskOutput(i, res))
    /\ IF ~DropsPermit(res)
       THEN /\ pc' = [pc EXCEPT ![i] = "done"]
            /\ UNCHANGED <<holds, acquires, waiters, available_permits>>
       ELSE IF waiters # <<>>
       THEN LET w == Head(waiters) IN
            /\ waiters' = Tail(waiters)
            /\ holds' = [holds EXCEPT ![i] = FALSE, ![w] = TRUE]
            /\ acquires' = [acquires EXCEPT ![w] = @ + 1]
            /\ pc' = [pc EXCEPT ![i] = "done", ![w] = "pacing"]
            /\ UNCHANGED available_permits
       ELSE /\ available_permits' = available_permits + 1
            /\ holds' = [holds EXCEPT ![i] = FALSE]
            /\ pc' = [pc EXCEPT ![i] = "done"]
            /\ UNCHANGED <<acquires, waiters>>

\* sleep(delay) of the task body is over; fetch_content starts and either
\* enters its loop with the first try_fetch_content or, with max_retries = 0,
\* falls through to the final Err
PaceDone(i) ==
    /\ UNCHANGED <<searchVars, pageVars>>
    /\ phase = "running"
    /\ i \in Tasks
    /\ pc[i] = "pacing"
    /\ paces' = [paces EXCEPT ![i] = @ + 1]
    /\ IF LoopCond(retries[i])
       THEN /\ attempts' = [attempts EXCEPT ![i] = @ + 1]
            /\ pc' = [pc EXCEPT ![i] = "io"]
            /\ UNCHANGED <<holds, acquires, waiters, available_permits, result, fetches>>
       ELSE /\ Finish(i, Failed)
            /\ UNCHANGED attempts
    /\ UNCHANGED <<config, urls, phase, next_url, retries, last_error, sleeps, returned>>

\* try_fetch_content returned Err(e): transport error, timeout or no content
AttemptErr(i) ==
    /\ UNCHANGED <<searchVars, pageVars>>
    /\ phase = "running"
    /\ i \in Tasks
    /\ pc[i] = "io"
    /\ retries' = [retries EXCEPT ![i] = @ + 1]
    /\ last_error' = [last_error EXCEPT ![i] = TRUE]
    /\ IF SleepCond(retries[i] + 1)
       THEN /\ sleeps' = [sleeps EXCEPT ![i] = Append(@, BackoffDelay(retries[i] + 1))]
            /\ pc' = [pc EXCEPT ![i] = "backoff"]
            /\ UNCHANGED <<attempts, holds, acquires, waiters, available_permits,
                           result, fetches>>
       ELSE IF LoopCond(retries[i] + 1)
       THEN \* no sleep: the loop goes on to the next attempt at once
            /\ attempts' = [attempts EXCEPT ![i] = @ + 1]
            /\ UNCHANGED <<pc, sleeps, holds, acquires, waiters, available_permits,
                           result, fetches>>
       ELSE /\ Finish(i, Failed)
            /\ UNCHANGED <<sleeps, attempts>>
    /\ UNCHANGED <<config, urls, phase, next_url, paces, returned>>

\* the backoff sleep is over: back to the loop head
BackoffDone(i) ==
    /\ UNCHANGED <<searchVars, pageVars>>
    /\ phase = "running"
    /\ i \in Tasks
    /\ pc[i] = "backoff"
    /\ IF LoopCond(retries[i])
       THEN /\ attempts' = [attempts EXCEPT ![i] = @ + 1]
            /\ pc' = [pc EXCEPT ![i] = "io"]
            /\ UNCHANGED <<holds, acquires, waiters, available_permits, result, fetches>>
       ELSE /\ Finish(i, Failed)
            /\ UNCHANGED attempts
    /\ UNCHANGED <<config, urls, phase, next_url, retries, last_error, sleeps, paces,
                   returned>>

\* buffer_unordered yields None once the stream reported its end (it is only
\* polled while the queue is shorter than max) and the queue is empty;
\* collect() completes, the Somes are kept and fetch_all returns Ok
Return ==
    /\ UNCHANGED <<searchVars, pageVars>>
    /\ phase = "running"
    /\ config.concurrent_requests > 0
    /\ next_url > Len(urls)
    /\ InProgress = {}
    /\ phase' = "returned"
    /\ returned' = [done |-> TRUE, ok |-> TRUE, contents |-> Collect(fetches)]
    /\ UNCHANGED <<config, urls, next_url, pc, retries, last_error, attempts, sleeps,
                   acquires, paces, holds, available_permits, waiters, result, fetches>>

\* ------------------------------------------------------------- strings
\* A Rust string is modelled as the sequence of its bytes.

CharTable ==
    <<  <<"%", 37>>, <<"&", 38>>, <<"-", 45>>, <<".", 46>>, <<"/", 47>>,
        <<"0", 48>>, <<"1", 49>>, <<"2", 50>>, <<"3", 51>>, <<"4", 52>>,
        <<"5", 53>>, <<"6", 54>>, <<"7", 55>>, <<"8", 56>>, <<"9", 57>>,
        <<":", 58>>, <<"=", 61>>, <<"?", 63>>,
        <<"A", 65>>, <<"B", 66>>, <<"C", 67>>, <<"D", 68>>, <<"E", 69>>, <<"F", 70>>,
        <<"U", 85>>, <<"_", 95>>,
        <<"a", 97>>, <<"b", 98>>, <<"c", 99>>, <<"d", 100>>, <<"e", 101>>,
        <<"f", 102>>, <<"g", 103>>, <<"h", 104>>, <<"i", 105>>, <<"j", 106>>,
        <<"k", 107>>, <<"l", 108>>, <<"m", 109>>, <<"n", 110>>, <<"o", 111>>,
        <<"p", 112>>, <<"q", 113>>, <<"r", 114>>, <<"s", 115>>, <<"t", 116>>,
        <<"u", 117>>, <<"v", 118>>, <<"w", 119>>, <<"x", 120>>, <<"y", 121>>,
        <<"z", 122>>  >>

\* the byte of an ASCII character
Byte(c) == LET k == CHOOSE k \in 1..Len(CharTable) : CharTable[k][1] = c
           IN  CharTable[k][2]

\* a string literal, written as the tuple of its characters
Str(cs) == [k \in 1..Len(cs) |-> Byte(cs[k])]

\* str::starts_with
StartsWith(s, p) == /\ Len(p) <= Len(s)
                    /\ SubSeq(s, 1, Len(p)) = p

\* s with its first k bytes cut off
Drop(s, k) == SubSeq(s, k + 1, Len(s))

\* str::contains
Contains(s, p) == \E k \in 0..(Len(s) - Len(p)) : SubSeq(s, k + 1, k + Len(p)) = p

RECURSIVE Remove(_, _)
\* str::replace(p, ""): every non-overlapping match of p, left to right, removed
Remove(s, p) ==
    IF s = <<>> THEN <<>>
    ELSE IF StartsWith(s, p) THEN Remove(Drop(s, Len(p)), p)
    ELSE <<Head(s)>> \o Remove(Tail(s), p)

RECURSIVE SplitAcc(_, _, _)
SplitAcc(s, b, cur) ==
    IF s = <<>> THEN <<cur>>
    ELSE IF Head(s) = b THEN <<cur>> \o SplitAcc(Tail(s), b, <<>>)
    ELSE SplitAcc(Tail(s), b, Append(cur, Head(s)))

\* str::split(char): the pieces between the separators, empty pieces included
Split(s, b) == SplitAcc(s, b, <<>>)

\* String's Ord: lexicographic on the bytes
RECURSIVE StrLess(_, _)
StrLess(a, b) ==
    IF b = <<>> THEN FALSE
    ELSE IF a = <<>> THEN TRUE
    ELSE IF Head(a) # Head(b) THEN Head(a) < Head(b)
    ELSE StrLess(Tail(a), Tail(b))

\* urlencoding's from_hex_digit: the value of a hex digit, -1 for any other byte
FromHexDigit(b) ==
    IF b >= 48 /\ b <= 57 THEN b - 48
    ELSE IF b >= 65 /\ b <= 70 THEN b - 55
    ELSE IF b >= 97 /\ b <= 102 THEN b - 87
    ELSE -1

RECURSIVE DecodeBinary(_)
\* urlencoding::decode_binary: %XY with two hex digits becomes one byte, any
\* other % stays as it is
DecodeBinary(s) ==
    IF s = <<>> THEN <<>>
    ELSE IF Head(s) # 37 THEN <<Head(s)>> \o DecodeBinary(Tail(s))
    ELSE IF Len(s) < 3 THEN s
    ELSE IF FromHexDigit(s[2]) < 0 THEN <<37>> \o DecodeBinary(Tail(s))
    ELSE IF FromHexDigit(s[3]) < 0 THEN <<37, s[2]>> \o DecodeBinary(Drop(s, 2))
    ELSE <<16 * FromHexDigit(s[2]) + FromHexDigit(s[3])>> \o DecodeBinary(Drop(s, 3))

Cont(b) == b >= 128 /\ b <= 191

RECURSIVE Utf8Valid(_)
\* String::from_utf8 accepts the bytes
Utf8Valid(s) ==
    IF s = <<>> THEN TRUE
    ELSE LET b == Head(s) IN
         IF b < 128 THEN Utf8Valid(Tail(s))
         ELSE IF b >= 194 /\ b <= 223
              THEN Len(s) >= 2 /\ Cont(s[2]) /\ Utf8Valid(Drop(s, 2))
         ELSE IF b >= 224 /\ b <= 239
              THEN /\ Len(s) >= 3 /\ Cont(s[2]) /\ Cont(s[3])
                   /\ (b = 224 => s[2] >= 160)
                   /\ (b = 237 => s[2] <= 159)
                   /\ Utf8Valid(Drop(s, 3))
         ELSE IF b >= 240 /\ b <= 244
              THEN /\ Len(s) >= 4 /\ Cont(s[2]) /\ Cont(s[3]) /\ Cont(s[4])
                   /\ (b = 240 => s[2] >= 144)
                   /\ (b = 244 => s[2] <= 143)
                   /\ Utf8Valid(Drop(s, 4))
         ELSE FALSE

\* Option<String>
None == [some |-> FALSE]
Some(v) == [some |-> TRUE, val |-> v]

\* urlencoding::decode(..).ok(): None when the decoded bytes are not UTF-8
Decode(s) == IF Utf8Valid(DecodeBinary(s)) THEN Some(DecodeBinary(s)) ELSE None

\* ------------------------------------------------- candidate URL extraction

\* the redirect marker "/url?", "q=", "http", "https://", '&'
UrlMarker == Str(<<"/", "u", "r", "l", "?">>)
QParam == Str(<<"q", "=">>)
Http == Str(<<"h", "t", "t", "p">>)
Https == Str(<<"h", "t", "t", "p", "s", ":", "/", "/">>)
Amp == Byte("&")

\* is_valid_url: invalid_patterns
InvalidPatterns ==
    { Str(<<"g","o","o","g","l","e",".","c","o","m","/","s","e","a","r","c","h">>),
      Str(<<"g","o","o","g","l","e",".","c","o","m","/","u","r","l">>),
      Str(<<"g","o","o","g","l","e",".","c","o","m","/","i","m","g","r","e","s">>),
      Str(<<"a","c","c","o","u","n","t","s",".","g","o","o","g","l","e">>),
      Str(<<"w","e","b","c","a","c","h","e",".","g","o","o","g","l","e",
            "u","s","e","r","c","o","n","t","e","n","t">>),
      Str(<<"/","p","r","e","f","e","r","e","n","c","e","s">>),
      Str(<<"/","s","e","t","t","i","n","g","s">>),
      Str(<<"/","a","d","v","a","n","c","e","d","_","s","e","a","r","c","h">>),
      Str(<<"/","s","e","t","p","r","e","f","s">>),
      Str(<<"j","a","v","a","s","c","r","i","p","t",":">>) }

\* the first piece of the split that starts with "q=", if any
FindQ(parts) ==
    LET hits == {k \in 1..Len(parts) : StartsWith(parts[k], QParam)}
    IN  IF hits = {} THEN None
        ELSE Some(parts[CHOOSE k \in hits : \A m \in hits : k <= m])

clean_google_url(url) ==
    LET query == FindQ(Split(Remove(url, UrlMarker), Amp))
    IN  IF Contains(url, UrlMarker) /\ query.some
        THEN Decode(Remove(query.val, QParam))
        ELSE IF StartsWith(url, Http) THEN Some(url)
        ELSE None

is_valid_url(url) ==
    /\ StartsWith(url, Https)
    /\ ~ \E p \in InvalidPatterns : Contains(url, p)
    /\ ~ Contains(url, <<Amp>>)

\* the selector patterns of extract_urls, by position in selector_patterns
SelectorPatterns == 1..7

\* document.select(selector): the anchors the pattern matches, in document order
Select(document, pattern) == SelectSeq(document, LAMBDA a : pattern \in a.pats)

RECURSIVE FilterMapLinks(_)
\* the filter_map closure of extract_urls over the matched anchors
FilterMapLinks(links) ==
    IF links = <<>> THEN <<>>
    ELSE LET link == Head(links)
             clean == IF link.href.some THEN clean_google_url(link.href.val) ELSE None
         IN  IF clean.some /\ is_valid_url(clean.val)
             THEN <<clean.val>> \o FilterMapLinks(Tail(links))
             ELSE FilterMapLinks(Tail(links))

RECURSIVE AllUrls(_, _)
\* all_urls after the loop over selector_patterns, from pattern k on
AllUrls(document, k) ==
    IF k > 7 THEN <<>>
    ELSE FilterMapLinks(Select(document, k)) \o AllUrls(document, k + 1)

RECURSIVE Insert(_, _)
Insert(sorted, x) ==
    IF sorted = <<>> THEN <<x>>
    ELSE IF StrLess(x, Head(sorted)) THEN <<x>> \o sorted
    ELSE <<Head(sorted)>> \o Insert(Tail(sorted), x)

RECURSIVE Sort(_)
\* Vec::sort: the elements in ascending order, equal ones kept
Sort(v) == IF v = <<>> THEN <<>> ELSE Insert(Sort(Tail(v)), Head(v))

\* duplicates left in
Dedup_Nothing(v) == v

RECURSIVE Dedup(_)
\* Vec::dedup: of each run of equal neighbours the first is kept
Dedup(v) ==
    IF Len(v) < 2 THEN v
    ELSE IF v[1] = v[2] THEN Dedup(Tail(v))
    ELSE <<Head(v)>> \o Dedup(Tail(v))

\* an empty list reported as an error
UrlsResult_ErrWhenEmpty(all_urls) == [ok |-> all_urls # <<>>, urls |-> all_urls]

\* the value extract_urls returns for all_urls after sort and dedup
UrlsResult(all_urls) == [ok |-> TRUE, urls |-> all_urls]

extract_urls(document) == UrlsResult(Dedup(Sort(AllUrls(document, 1))))

\* ------------------------------------------------------------------ search

MaxAnchors == 3
MaxSearches == 3

\* the hrefs of the results pages the model reads
HrefA == Str(<<"h","t","t","p","s",":","/","/","a",".","i","o">>)
HrefB == Str(<<"h","t","t","p","s",":","/","/","b",".","i","o">>)
HrefC == Str(<<"h","t","t","p","s",":","/","/","c",".","i","o">>)
HrefD == Str(<<"h","t","t","p","s",":","/","/","d",".","i","o">>)
HrefE == Str(<<"h","t","t","p","s",":","/","/","a",".","i","o","/","x">>)
HrefRedirectA ==
    Str(<<"/","u","r","l","?","q","=","h","t","t","p","s","%","3","A","%","2","F",
          "%","2","F","a",".","i","o","&","s","a","=","U">>)
HrefRedirectB ==
    Str(<<"/","u","r","l","?","s","a","=","U","&","q","=","h","t","t","p","s",":",
          "/","/","b",".","i","o">>)
HrefPlainHttp == Str(<<"h","t","t","p",":","/","/","c",".","i","o">>)
HrefSearch ==
    Str(<<"h","t","t","p","s",":","/","/","g","o","o","g","l","e",".","c","o","m",
          "/","s","e","a","r","c","h","?","q","=","x">>)
HrefAccounts ==
    Str(<<"h","t","t","p","s",":","/","/","a","c","c","o","u","n","t","s",".",
          "g","o","o","g","l","e",".","c","o","m">>)
HrefQuery == Str(<<"h","t","t","p","s",":","/","/","d",".","i","o","/","?","a","=","1",
                   "&","b","=","2">>)
HrefRelative == Str(<<"/","p","a","g","e">>)

Anchor(pats, href) == [pats |-> pats, href |-> href]

\* anchors of a results page: the selector patterns matching each and its href
AnchorPool ==
    { Anchor({1, 3}, Some(HrefC)),
      Anchor({3}, Some(HrefA)),
      Anchor({2}, Some(HrefRedirectA)),
      Anchor({7}, Some(HrefRedirectB)),
      Anchor({5}, Some(HrefPlainHttp)),
      Anchor({3, 4}, Some(HrefSearch)),
      Anchor({6}, Some(HrefQuery)),
      Anchor({3}, Some(HrefRelative)),
      Anchor({7}, None),
      Anchor({}, Some(HrefD)) }

\* the results page of the end-to-end scenario: 5 valid anchors, 2 denylisted
ScenarioPage ==
    << Anchor({1}, Some(HrefE)), Anchor({3}, Some(HrefSearch)),
       Anchor({1}, Some(HrefD)), Anchor({7}, Some(HrefRedirectB)),
       Anchor({3, 4}, Some(HrefAccounts)), Anchor({2}, Some(HrefC)),
       Anchor({3}, Some(HrefA)) >>

Documents == SeqsUpTo(AnchorPool, MaxAnchors) \cup {ScenarioPage}

SearchIdle ==
    /\ spc = "idle"
    /\ requests_sent = 0
    /\ search_failure = "none"
    /\ results_page = <<>>
    /\ search_ret = [done |-> FALSE, ok |-> FALSE, urls |-> <<>>]
    /\ searches = 0
    /\ clock = 0

\* search is called and sleeps one second
Search ==
    /\ spc = "idle"
    /\ spc' = "sleeping"
    /\ UNCHANGED <<requests_sent, search_failure, results_page, search_ret,
                   searches, clock, fetchVars, pageVars>>

\* the caller calls search on the same engine once more, after the call
\* before it has returned: the locals of the new call are fresh
SearchAgain ==
    /\ spc = "done"
    /\ searches < MaxSearches
    /\ spc' = "sleeping"
    /\ requests_sent' = 0
    /\ search_failure' = "none"
    /\ results_page' = <<>>
    /\ search_ret' = [done |-> FALSE, ok |-> FALSE, urls |-> <<>>]
    /\ UNCHANGED <<searches, clock, fetchVars, pageVars>>

SearchDelay == 1

\* the times at which sleep(Duration::from_secs(1)) started at `now` may
\* complete: at its deadline or, the timer being late, after it
Slept_NoWait(now) == {now, now + 1}
Slept(now) == {now + SearchDelay, now + SearchDelay + 1}

\* the sleep is over: the request is built and sent
SendRequest ==
    /\ spc = "sleeping"
    /\ spc' = "sending"
    /\ clock' \in Slept(clock)
    /\ requests_sent' = requests_sent + 1
    /\ UNCHANGED <<search_failure, results_page, search_ret, searches,
                   fetchVars, pageVars>>

\* send() failed: map_err and `?` return the error
SendErr ==
    /\ spc = "sending"
    /\ spc' = "done"
    /\ search_failure' = "send"
    /\ search_ret' = [done |-> TRUE, ok |-> FALSE, urls |-> <<>>]
    /\ searches' = searches + 1
    /\ UNCHANGED <<requests_sent, results_page, clock, fetchVars, pageVars>>

\* send() gave a response, whatever its status
SendOk ==
    /\ spc = "sending"
    /\ spc' = "reading"
    /\ UNCHANGED <<requests_sent, search_failure, results_page, search_ret,
                   searches, clock, fetchVars, pageVars>>

\* response.text() failed: `?` returns the error
TextErr ==
    /\ spc = "reading"
    /\ spc' = "done"
    /\ search_failure' = "text"
    /\ search_ret' = [done |-> TRUE, ok |-> FALSE, urls |-> <<>>]
    /\ searches' = searches + 1
    /\ UNCHANGED <<requests_sent, results_page, clock, fetchVars, pageVars>>

\* the body was read: it is parsed and extract_urls gives the result of search
TextOk ==
    /\ spc = "reading"
    /\ \E d \in Documents :
        /\ results_page' = d
        /\ search_ret' = [done |-> TRUE, ok |-> extract_urls(d).ok,
                          urls |-> extract_urls(d).urls]
    /\ spc' = "done"
    /\ searches' = searches + 1
    /\ UNCHANGED <<requests_sent, search_failure, clock, fetchVars, pageVars>>

\* ------------------------------------------------------- clean_google_url

MaxPieces == 3

\* the pieces the hrefs handed to clean_google_url are put together from
HrefPieces ==
    { UrlMarker, QParam, Https, Http, <<Amp>>,
      Str(<<"a", ".", "i", "o">>), Str(<<"%", "3", "A">>), Str(<<"s", "a", "=", "U">>) }

RECURSIVE Concat(_)
Concat(ss) == IF ss = <<>> THEN <<>> ELSE Head(ss) \o Concat(Tail(ss))

Hrefs == {Concat(ps) : ps \in SeqsUpTo(HrefPieces, MaxPieces)}

\* nothing cleaned or scraped yet
PagesIdle ==
    /\ href_in = <<>>
    /\ clean_ret = [done |-> FALSE, out |-> None]
    /\ scrape_doc = <<>>
    /\ scrape_ret = [done |-> FALSE]
    /\ text_ret = [done |-> FALSE]

\* extract_urls hands the href of a link to clean_google_url
CleanUrl ==
    /\ ~clean_ret.done
    /\ \E h \in Hrefs :
        /\ href_in' = h
        /\ clean_ret' = [done |-> TRUE, out |-> clean_google_url(h)]
    /\ UNCHANGED <<fetchVars, searchVars, web, scrape_doc, scrape_ret, text_ret>>

\* ------------------------------------------------------ content extraction
\* A text is the sequence of the code points of its chars.

MaxNodes == 3
MaxContentUrls == 2

\* char::is_whitespace: the code points with the White_Space property
IsWhitespace(c) ==
    \/ c \in 9..13
    \/ c \in {32, 133, 160, 5760, 8232, 8233, 8239, 8287, 12288}
    \/ c \in 8192..8202

\* char::is_ascii
IsAscii(c) == c < 128

RECURSIVE TrimStart(_)
TrimStart(t) == IF t # <<>> /\ IsWhitespace(Head(t)) THEN TrimStart(Tail(t)) ELSE t

RECURSIVE TrimEnd(_)
TrimEnd(t) ==
    IF t # <<>> /\ IsWhitespace(t[Len(t)]) THEN TrimEnd(SubSeq(t, 1, Len(t) - 1)) ELSE t

\* str::trim
Trim(t) == TrimEnd(TrimStart(t))

RECURSIVE Join(_, _)
\* [String]::join(sep)
Join(ts, sep) ==
    IF ts = <<>> THEN <<>>
    ELSE IF Len(ts) = 1 THEN ts[1]
    ELSE ts[1] \o sep \o Join(Tail(ts), sep)

RECURSIVE WordsAcc(_, _)
WordsAcc(t, cur) ==
    IF t = <<>> THEN (IF cur = <<>> THEN <<>> ELSE <<cur>>)
    ELSE IF IsWhitespace(Head(t))
         THEN (IF cur = <<>> THEN <<>> ELSE <<cur>>) \o WordsAcc(Tail(t), <<>>)
    ELSE WordsAcc(Tail(t), Append(cur, Head(t)))

\* str::split_whitespace: the maximal runs of chars that are not whitespace
SplitWhitespace(t) == WordsAcc(t, <<>>)

\* the chars clean_text lets through
Kept(c) == IsAscii(c) \/ IsWhitespace(c)

\* the non-ASCII chars let through as well
clean_text_KeepsAll(text) == Join(SplitWhitespace(text), <<32>>)

\* ContentScraper::clean_text
clean_text(text) == Join(SplitWhitespace(SelectSeq(text, Kept)), <<32>>)

\* the default_selectors of ContentScraper and the selectors of extract_text,
\* by position in their list
ContentSelectors == 1..7

\* the metadata_selectors of ContentScraper::default, by key
MetadataFields == {"title", "description", "keywords", "author", "date"}

\* element.text().collect::<Vec<_>>().join(" ")
ElementText(element) == Join(element.texts, <<32>>)

\* document.select(selector) for a content selector, in document order
SelectContent(document, selector) == SelectSeq(document, LAMBDA n : selector \in n.sels)

\* document.select(selector) for the selector of a metadata field
SelectField(document, field) == SelectSeq(document, LAMBDA n : field \in n.fields)

RECURSIVE MapText(_)
MapText(elements) ==
    IF elements = <<>> THEN <<>>
    ELSE <<ElementText(Head(elements))>> \o MapText(Tail(elements))

NotBlank(t) == Trim(t) # <<>>

\* ContentScraper::extract_text_by_selector
extract_text_by_selector(document, selector) ==
    Trim(Join(SelectSeq(MapText(SelectContent(document, selector)), NotBlank), <<10>>))

\* every selector wins, whatever it found
Wins_Always(content) == TRUE

\* `if !content.is_empty()` of extract_content
Wins(content) == content # <<>>

RECURSIVE ExtractContentFrom(_, _)
\* the loop of extract_content from selector k on
ExtractContentFrom(document, k) ==
    IF k > 7 THEN [ok |-> FALSE]
    ELSE IF Wins(extract_text_by_selector(document, k))
         THEN [ok |-> TRUE, val |-> clean_text(extract_text_by_selector(document, k))]
    ELSE ExtractContentFrom(document, k + 1)

\* ContentScraper::extract_content
extract_content(document) == ExtractContentFrom(document, 1)

\* the text tried before the content attribute
MetadataOf_TextFirst(element) ==
    IF Trim(ElementText(element)) # <<>> THEN Some(Trim(ElementText(element)))
    ELSE IF element.attr.some THEN Some(element.attr.val)
    ELSE None

\* the closure of extract_metadata_value on the first matching element
MetadataOf(element) ==
    IF element.attr.some THEN Some(element.attr.val)
    ELSE IF Trim(ElementText(element)) # <<>> THEN Some(Trim(ElementText(element)))
    ELSE None

\* ContentScraper::extract_metadata_value
extract_metadata_value(document, field) ==
    IF SelectField(document, field) = <<>> THEN None
    ELSE MetadataOf(Head(SelectField(document, field)))

\* ContentScraper::extract_metadata
extract_metadata(document) ==
    [f \in {g \in MetadataFields : extract_metadata_value(document, g).some}
        |-> extract_metadata_value(document, f).val]

\* HashMap::new()
EmptyMap == [f \in {} |-> <<>>]

\* ContentScraper::extract, after Html::parse_document
extract(document, url) ==
    IF extract_content(document).ok
    THEN [ok |-> TRUE,
          val |-> [url |-> url, content |-> extract_content(document).val,
                   metadata |-> extract_metadata(document)]]
    ELSE [ok |-> FALSE]

RECURSIVE ExtractTextFrom(_, _)
\* the loop of SearchEngine::extract_text from selector k on
ExtractTextFrom(document, k) ==
    IF k > 7 THEN [ok |-> FALSE]
    ELSE LET content == Join(MapText(SelectContent(document, k)), <<10>>)
         IN  IF Trim(content) # <<>> THEN [ok |-> TRUE, val |-> Trim(content)]
             ELSE ExtractTextFrom(document, k + 1)

\* SearchEngine::extract_text
extract_text(document) == ExtractTextFrom(document, 1)

\* the metadata of a successful fetch taken from the page
try_fetch_content_WithMetadata(url, document) ==
    IF extract_text(document).ok
    THEN [ok |-> TRUE,
          val |-> [url |-> url, content |-> extract_text(document).val,
                   metadata |-> extract_metadata(document)]]
    ELSE [ok |-> FALSE]

\* SearchEngine::try_fetch_content, once the body was read and parsed
try_fetch_content(url, document) ==
    IF extract_text(document).ok
    THEN [ok |-> TRUE,
          val |-> [url |-> url, content |-> extract_text(document).val,
                   metadata |-> EmptyMap]]
    ELSE [ok |-> FALSE]

Element(sels, fields, attr, texts) ==
    [sels |-> sels, fields |-> fields, attr |-> attr, texts |-> texts]

\* elements of a page: the selectors matching each, its content attribute and
\* its text nodes
ElementPool ==
    { Element({1}, {}, None, << <<104, 105>> >>),                       \* "hi"
      Element({1}, {}, None, << <<32>> >>),                             \* " "
      Element({2}, {}, None, << <<120, 10, 10, 32, 121>> >>),           \* "x\n\n y"
      Element({7}, {}, None, << <<26085, 26412>> >>),                   \* no ASCII char
      Element({2, 7}, {}, None, << <<97, 32, 32, 98>>, <<233, 99>> >>), \* "a  b", "ec" with accent
      Element({}, {"description"}, Some(<<100>>), <<>>),                \* meta content="d"
      Element({}, {"description"}, Some(<<>>), <<>>),                   \* meta content=""
      Element({}, {"author"}, None, << <<32, 66, 111, 98, 32>> >>),     \* " Bob "
      Element({}, {"author"}, Some(<<65, 108>>), << <<104, 105>> >>),   \* content="Al", text "hi"
      Element({}, {"date"}, None, << <<32>> >>),                        \* blank text
      Element({}, {}, None, << <<122>> >>) }                            \* matched by nothing

Pages == SeqsUpTo(ElementPool, MaxNodes)

\* the URL the scraped document came from
ScrapeUrl == "u1"

\* ContentScraper::default().extract(html, url)
Extract ==
    /\ ~scrape_ret.done
    /\ scrape_ret' = [done |-> TRUE, ret |-> extract(scrape_doc, ScrapeUrl)]
    /\ UNCHANGED <<fetchVars, searchVars, web, href_in, clean_ret, scrape_doc, text_ret>>

\* SearchEngine::extract_text(&document)
ExtractText ==
    /\ ~text_ret.done
    /\ text_ret' = [done |-> TRUE, ret |-> extract_text(scrape_doc)]
    /\ UNCHANGED <<fetchVars, searchVars, web, href_in, clean_ret, scrape_doc, scrape_ret>>

\* -------------------------------------------------------- fetched pages

\* the pages the fetched URLs serve: an article with meta tags, notes with an
\* author node, a page without any text to extract, a page without ASCII text
ArticlePage ==
    << Element({}, {"description"}, Some(<<100>>), <<>>),
       Element({}, {"author"}, Some(<<65, 108>>), << <<104, 105>> >>),
       Element({1}, {}, None, << <<104, 105>> >>) >>
NotesPage ==
    << Element({2}, {}, None, << <<120, 10, 10, 32, 121>> >>),
       Element({}, {"author"}, None, << <<32, 66, 111, 98, 32>> >>) >>
BlankPage ==
    << Element({}, {"description"}, Some(<<100>>), <<>>),
       Element({1}, {}, None, << <<32>> >>),
       Element({}, {}, None, << <<122>> >>) >>
CjkPage ==
    << Element({7}, {}, None, << <<26085, 26412>> >>) >>

WebPages == {ArticlePage, NotesPage, BlankPage, CjkPage}

\* try_fetch_content got the page p and returned Ok(content): fetch_content
\* returns it
AttemptOk(i) ==
    /\ UNCHANGED <<searchVars, pageVars>>
    /\ phase = "running"
    /\ i \in Tasks
    /\ pc[i] = "io"
    /\ \E p \in web :
        /\ try_fetch_content(urls[i], p).ok
        /\ Finish(i, try_fetch_content(urls[i], p))
    /\ UNCHANGED <<config, urls, phase, next_url, retries, last_error, attempts, sleeps,
                   paces, returned>>

\* ---------------------------------------------------------- specifications

\* fetch_all on every list of URLs under every configuration, every URL
\* serving the article
Init == FetchInit /\ SearchIdle /\ PagesIdle /\ web = {ArticlePage}

Next ==
    \/ FetchAll
    \/ \E i \in Tasks : StartTask(i)
    \/ \E i \in Tasks : PaceDone(i)
    \/ \E i \in Tasks : AttemptOk(i)
    \/ \E i \in Tasks : AttemptErr(i)
    \/ \E i \in Tasks : BackoffDone(i)
    \/ Return

Spec == Init /\ [][Next]_vars

\* the runtime keeps polling what is ready: timers fire, every HTTP attempt
\* completes or times out, a released permit wakes its waiter
Running ==
    \/ \E i \in Tasks : StartTask(i)
    \/ \E i \in Tasks : PaceDone(i)
    \/ \E i \in Tasks : AttemptOk(i)
    \/ \E i \in Tasks : AttemptErr(i)
    \/ \E i \in Tasks : BackoffDone(i)
    \/ Return

FairSpec == Spec /\ WF_vars(Running)

\* search on every results page, the fetcher left alone
SearchInit == SearchIdle /\ Constructed(DefaultConfig, <<>>) /\ PagesIdle /\ web = {}

SearchNext ==
    Search \/ SearchAgain \/ SendRequest \/ SendErr \/ SendOk \/ TextErr \/ TextOk

SearchSpec == SearchInit /\ [][SearchNext]_vars

\* fetch_all of the default configuration, the URLs serving any of the pages
ContentInit ==
    /\ SearchIdle
    /\ PagesIdle
    /\ web = WebPages
    /\ \E n \in 0..MaxContentUrls : Constructed(DefaultConfig, UrlList(n))

ContentSpec == ContentInit /\ [][Next]_vars

\* the two extractors on every page
ScraperInit ==
    /\ SearchIdle
    /\ Constructed(DefaultConfig, <<>>)
    /\ web = {}
    /\ href_in = <<>>
    /\ clean_ret = [done |-> FALSE, out |-> None]
    /\ scrape_doc \in Pages
    /\ scrape_ret = [done |-> FALSE]
    /\ text_ret = [done |-> FALSE]

ScraperNext == Extract \/ ExtractText

ScraperSpec == ScraperInit /\ [][ScraperNext]_vars

\* clean_google_url on every href
CleanSpec == SearchInit /\ [][CleanUrl]_vars

\* ------------------------------------------------------------- properties

Held == {i \in Tasks : holds[i]}

\* C1: when every attempt of a URL fails, fetch_content returns its error after
\* exactly max_retries calls of try_fetch_content, and no URL is ever tried
\* more often than max_retries times.
C1_ExactlyMaxRetriesAttempts ==
    \A i \in Tasks :
        /\ attempts[i] <= config.max_retries
        /\ result[i] = "err" => attempts[i] = config.max_retries
        /\ (pc[i] = "done" /\ retries[i] = attempts[i]) => result[i] = "err"

C1_Witness ==
    \E i \in Tasks : result[i] = "err" /\ attempts[i] = 3 /\ retries[i] = 3

\* C2: when the first k < max_retries attempts fail and attempt k+1 succeeds,
\* fetch_content returns success; the sleep after the j-th failure lasted 2^j
\* seconds, every re-attempt has its sleep behind it, and the sleeps of a
\* success after k failures add up to 2 + 4 + ... + 2^k = 2^(k+1) - 2 seconds.
C2_BackoffSchedule ==
    \A i \in Tasks :
        /\ \A j \in 1..Len(sleeps[i]) : sleeps[i][j] = 2 ^ j
        /\ pc[i] = "io" => Len(sleeps[i]) = attempts[i] - 1
        /\ result[i] = "ok" =>
            /\ retries[i] < config.max_retries
            /\ attempts[i] = retries[i] + 1
            /\ Len(sleeps[i]) = retries[i]
            /\ SumSeq(sleeps[i]) = 2 ^ (retries[i] + 1) - 2

C2_Witness ==
    \E i \in Tasks : result[i] = "ok" /\ retries[i] = 2 /\ sleeps[i] = <<2, 4>>

\* C3 as claimed: every attempt, the first and every retry, has its own permit
\* acquisition and its own pacing delay before it.
C3_PermitAndPacePerAttempt ==
    \A i \in Tasks : attempts[i] <= acquires[i] /\ attempts[i] <= paces[i]

\* C3 as amended: a task acquires one permit and waits one pacing delay, in
\* this order, before its first attempt and never again; it keeps the permit
\* through every attempt and backoff sleep until it finishes.
C3_PermitAndPaceOncePerUrl ==
    \A i \in Tasks :
        /\ acquires[i] <= 1 /\ paces[i] <= acquires[i]
        /\ (attempts[i] > 0 \/ pc[i] \in {"io", "backoff"}) =>
                acquires[i] = 1 /\ paces[i] = 1
        /\ pc[i] \in {"pacing", "io", "backoff"} => holds[i]

C3_Witness ==
    \E i \in Tasks : pc[i] = "io" /\ attempts[i] = 3 /\ acquires[i] = 1 /\ paces[i] = 1

\* C4: at most concurrent_requests URLs are started and unfinished, and at
\* most burst_size tasks hold a permit, both at once, whichever is larger.
C4_BothBounds ==
    /\ Cardinality(InProgress) <= config.concurrent_requests
    /\ Cardinality(Held) <= config.burst_size

C4_Witness ==
    /\ config.concurrent_requests = 2 /\ config.burst_size = 1
    /\ Cardinality(InProgress) = 2 /\ Cardinality(Held) = 1
    /\ next_url <= Len(urls)

\* C5: permits are never leaked: the permits in the limiter and the permits
\* held always add up to burst_size, a finished task holds none whether it
\* succeeded or failed, and when fetch_all has returned all burst_size
\* permits are available again.
C5_NoPermitLeak ==
    /\ available_permits + Cardinality(Held) = config.burst_size
    /\ \A i \in Tasks : pc[i] = "done" => ~holds[i]
    /\ phase = "returned" => available_permits = config.burst_size

C5_Witness ==
    /\ phase = "returned"
    /\ \E i, j \in Tasks : result[i] = "err" /\ result[j] = "ok" /\ acquires[i] = 1

\* C6: fetch_all returns Ok and its list holds exactly one record for each
\* URL whose fetch_content succeeded and none for a URL whose fetch_content
\* failed, also when every URL fails.
C6_SuccessesOnly ==
    phase = "returned" =>
        /\ returned.done /\ returned.ok
        /\ \A i \in Tasks :
            Cardinality({k \in 1..Len(returned.contents) : returned.contents[k].task = i})
                = IF result[i] = "ok" THEN 1 ELSE 0
        /\ \A k \in 1..Len(returned.contents) :
            /\ returned.contents[k].task \in Tasks
            /\ returned.contents[k].url = urls[returned.contents[k].task]

C6_Witness ==
    /\ phase = "returned" /\ returned.ok
    /\ Len(urls) = 3
    /\ \A i \in Tasks : result[i] = "err"
    /\ returned.contents = <<>>

Terminal == \A i \in Tasks : pc[i] = "done" /\ result[i] \in {"ok", "err"}

\* C7 as claimed: under every configuration, once fetch_all is invoked every
\* URL reaches Succeeded or Failed and fetch_all returns.
C7_TerminatesAlways == (phase = "running") ~> (phase = "returned" /\ Terminal)

\* C7 as amended: with a concurrency cap of at least 1 and a burst size of at
\* least 1, once fetch_all is invoked every URL reaches Succeeded or Failed
\* and fetch_all returns.
C7_TerminatesWithPositiveCaps ==
    (phase = "running" /\ config.concurrent_requests >= 1 /\ config.burst_size >= 1)
        ~> (phase = "returned" /\ Terminal)

C7_Witness ==
    /\ phase = "returned" /\ Terminal
    /\ config.concurrent_requests = 2 /\ config.burst_size = 1
    /\ Len(urls) = 3
    /\ \E i \in Tasks : retries[i] = 3

Suspended == {"waiting", "pacing", "io", "backoff"}

\* the next URL of the stream, for which a slot is free
Startable(j) == phase = "running" /\ pc[j] = "pending" /\ j = next_url /\ SlotFree

\* C8 as claimed: while a task is suspended, every other URL that has or can
\* get a concurrency slot can acquire a permit: none is left waiting for one.
C8_OthersAlwaysGetPermit ==
    \A i, j \in Tasks :
        (i # j /\ pc[i] \in Suspended) =>
            /\ pc[j] # "waiting"
            /\ Startable(j) => available_permits > 0

\* C8 as amended: a suspended task suspends only itself: every other task
\* that holds a permit can take its next step, the next URL can be started
\* when a slot is free, and it gets a permit when one is available; but a
\* task keeps its permit while suspended, so a task waits for a permit
\* exactly while all burst_size permits are held by unfinished tasks.
C8_OnlyPermitsBlock ==
    \A j \in Tasks :
        /\ pc[j] = "pacing" => ENABLED PaceDone(j)
        /\ pc[j] = "backoff" => ENABLED BackoffDone(j)
        /\ pc[j] = "io" => ENABLED AttemptOk(j) /\ ENABLED AttemptErr(j)
        /\ Startable(j) => ENABLED StartTask(j)
        /\ (Startable(j) /\ available_permits > 0) => ENABLED (StartTask(j) /\ holds'[j])
        /\ pc[j] = "waiting" =>
            /\ available_permits = 0
            /\ Cardinality(Held) = config.burst_size
            /\ \A h \in Held : pc[h] \in {"pacing", "io", "backoff"}

C8_Witness ==
    \E i, j, k \in Tasks :
        /\ pc[i] = "backoff" /\ pc[j] = "waiting" /\ pc[k] = "io"
        /\ config.burst_size = 2

Candidates(page) ==
    { clean_google_url(page[k].href.val).val :
        k \in { m \in 1..Len(page) :
                    /\ page[m].pats \cap SelectorPatterns # {}
                    /\ page[m].href.some
                    /\ clean_google_url(page[m].href.val).some
                    /\ is_valid_url(clean_google_url(page[m].href.val).val) } }

\* C10: the list search returns is strictly ascending in byte order, so
\* without duplicates, each of its elements starts with https://, contains
\* no denylisted substring and no '&', and its elements are exactly the valid
\* cleaned hrefs of the matched anchors; the page with 5 valid and 2
\* denylisted anchors gives its 5 valid URLs.
C10_SortedDedupedValid ==
    (search_ret.done /\ search_ret.ok) =>
        LET us == search_ret.urls IN
        /\ \A k \in 1..(Len(us) - 1) : StrLess(us[k], us[k + 1])
        /\ \A k \in 1..Len(us) :
            /\ SubSeq(us[k], 1, 8) = Https
            /\ ~ Contains(us[k], <<Amp>>)
            /\ \A p \in InvalidPatterns : ~ Contains(us[k], p)
        /\ {us[k] : k \in 1..Len(us)} = Candidates(results_page)
        /\ results_page = ScenarioPage => us = <<HrefA, HrefE, HrefB, HrefC, HrefD>>

C10_Witness ==
    /\ search_ret.done /\ search_ret.ok
    /\ results_page = ScenarioPage
    /\ Len(search_ret.urls) = 5

\* a URL with the scheme and the "//" of an absolute http(s) URL
IsAbsoluteUrl(u) == StartsWith(u, Https) \/ StartsWith(u, Http \o Str(<<":", "/", "/">>))

\* the text after the first "/url?" of an href that has one
AfterMarker(h) ==
    LET at == CHOOSE k \in 0..Len(h) :
                /\ SubSeq(h, k + 1, k + 5) = UrlMarker
                /\ \A m \in 0..(k - 1) : SubSeq(h, m + 1, m + 5) # UrlMarker
    IN  Drop(h, at + 5)

\* the value of the q parameter of a query string, not yet decoded
QueryValue(query) ==
    LET params == Split(query, Amp)
        hits == {k \in 1..Len(params) : StartsWith(params[k], QParam)}
    IN  IF hits = {} THEN None
        ELSE Some(Drop(params[CHOOSE k \in hits : \A m \in hits : k <= m], 2))

\* C11: clean_google_url returns None for a relative or unparseable href and
\* an absolute URL otherwise: the percent-decoded value of the q parameter for
\* an href containing "/url?", the href itself for one that begins with
\* "http"; every value it returns is an absolute URL.
C11_CleanGivesAbsoluteOrNone ==
    clean_ret.done =>
        LET out == clean_ret.out IN
        /\ out.some => IsAbsoluteUrl(out.val)
        /\ (~Contains(href_in, UrlMarker) /\ ~StartsWith(href_in, Http)) => ~out.some
        /\ (~Contains(href_in, UrlMarker) /\ StartsWith(href_in, Http)) => out = Some(href_in)
        /\ (Contains(href_in, UrlMarker) /\ QueryValue(AfterMarker(href_in)).some) =>
                out = Decode(QueryValue(AfterMarker(href_in)).val)

\* selector k matches an element of the page whose text is not blank
HasText(page, k) ==
    \E n \in 1..Len(page) : k \in page[n].sels /\ Trim(ElementText(page[n])) # <<>>

Givers(page) == {k \in ContentSelectors : HasText(page, k)}

\* the first selector of the list with text
Winner(page) == CHOOSE k \in Givers(page) : \A m \in Givers(page) : k <= m

Scraped == scrape_ret.done /\ scrape_ret.ret.ok

\* C12: the content ContentScraper returns comes from the first selector in
\* list order whose elements give text that is not blank, a selector that
\* matches only blank elements never wins over a later one with text, and
\* extraction fails exactly when no selector of the list gives text.
C12_StrictPriority ==
    scrape_ret.done =>
        /\ scrape_ret.ret.ok <=> Givers(scrape_doc) # {}
        /\ scrape_ret.ret.ok =>
            scrape_ret.ret.val.content =
                clean_text(extract_text_by_selector(scrape_doc, Winner(scrape_doc)))

C12_Witness ==
    /\ Scraped
    /\ \E n \in 1..Len(scrape_doc) : 1 \in scrape_doc[n].sels
    /\ Winner(scrape_doc) = 2
    /\ HasText(scrape_doc, 7)
    /\ scrape_ret.ret.val.content = <<120, 32, 121>>

\* C13: every ScrapedContent returned with success, by ContentScraper::extract
\* and by the text extraction of try_fetch_content alike, has a content
\* string that is not empty.
C13_ContentNeverEmpty ==
    /\ Scraped => scrape_ret.ret.val.content # <<>>
    /\ (text_ret.done /\ text_ret.ret.ok) => text_ret.ret.val # <<>>

\* the first element matching the selector of field f that has a content
\* attribute
FirstWithAttr(page, f) ==
    LET withAttr == SelectSeq(SelectField(page, f), LAMBDA n : n.attr.some)
    IN  IF withAttr = <<>> THEN None ELSE Some(Head(withAttr))

\* C14 as claimed: when the page has an element matching a field's selector
\* that carries a content attribute, the field gets that attribute's value,
\* whatever other elements match the selector.
C14_MetaTagAlwaysPreferred ==
    Scraped =>
        \A f \in MetadataFields :
            FirstWithAttr(scrape_doc, f).some =>
                /\ f \in DOMAIN scrape_ret.ret.val.metadata
                /\ scrape_ret.ret.val.metadata[f] = FirstWithAttr(scrape_doc, f).val.attr.val

\* C14 as amended: when the first element in document order matching a
\* field's selector carries a content attribute, the field gets that
\* attribute's value, in preference to the element's own text and to every
\* later matching element.
C14_FirstElementContentAttr ==
    Scraped =>
        \A f \in MetadataFields :
            (SelectField(scrape_doc, f) # <<>> /\ Head(SelectField(scrape_doc, f)).attr.some) =>
                /\ f \in DOMAIN scrape_ret.ret.val.metadata
                /\ scrape_ret.ret.val.metadata[f] = Head(SelectField(scrape_doc, f)).attr.val

C14_Witness ==
    /\ Scraped
    /\ Len(SelectField(scrape_doc, "author")) = 2
    /\ Head(SelectField(scrape_doc, "author")).attr = Some(<<65, 108>>)
    /\ Head(SelectField(scrape_doc, "author")).texts # <<>>
    /\ scrape_ret.ret.val.metadata["author"] = <<65, 108>>

\* C15: a field is in the metadata map only with a value that is not empty,
\* and a field whose first matching element has neither a non-empty content
\* attribute nor text that is not blank is not in the map.
C15_NoEmptyMetadata ==
    Scraped =>
        \A f \in MetadataFields :
            LET matched == SelectField(scrape_doc, f)
                yields == /\ matched # <<>>
                          /\ \/ (Head(matched).attr.some /\ Head(matched).attr.val # <<>>)
                             \/ Trim(ElementText(Head(matched))) # <<>>
            IN  /\ f \in DOMAIN scrape_ret.ret.val.metadata =>
                        scrape_ret.ret.val.metadata[f] # <<>>
                /\ ~yields => f \notin DOMAIN scrape_ret.ret.val.metadata

RECURSIVE CollapseLines(_)
\* every line with its runs of whitespace collapsed to one space
CollapseLines(lines) ==
    IF lines = <<>> THEN <<>>
    ELSE <<Join(SplitWhitespace(Head(lines)), <<32>>)>> \o CollapseLines(Tail(lines))

\* the cleaning by lines: blank lines dropped, the others collapsed and
\* rejoined with newlines
LineClean(text) ==
    Join(SelectSeq(CollapseLines(Split(text, 10)), LAMBDA l : l # <<>>), <<10>>)

\* the text joined from the elements of the winning selector
JoinedText(page) == Join(MapText(SelectContent(page, Winner(page))), <<10>>)

\* C16 as claimed: the text of main-content extraction is the winning
\* selector's joined text cleaned by lines, the line boundaries kept.
C16_CleanedByLines ==
    /\ Scraped => scrape_ret.ret.val.content = LineClean(JoinedText(scrape_doc))
    /\ (text_ret.done /\ text_ret.ret.ok) => text_ret.ret.val = LineClean(JoinedText(scrape_doc))

OneSpaced(t) ==
    /\ \A k \in 1..Len(t) : t[k] = 32 \/ (IsAscii(t[k]) /\ ~IsWhitespace(t[k]))
    /\ t # <<>> => (t[1] # 32 /\ t[Len(t)] # 32)
    /\ \A k \in 1..(Len(t) - 1) : ~(t[k] = 32 /\ t[k + 1] = 32)

\* C16 as amended: the content of ContentScraper is the winning selector's
\* joined text with every char that is neither ASCII nor whitespace removed
\* and every run of whitespace, newlines included, collapsed to one space: one
\* line, no line boundary kept. The text of SearchEngine::extract_text is the
\* winning selector's joined text trimmed and not cleaned at all.
C16_CollapsedToOneLine ==
    /\ Scraped =>
        /\ OneSpaced(scrape_ret.ret.val.content)
        /\ SelectSeq(scrape_ret.ret.val.content, LAMBDA c : c # 32)
            = SelectSeq(JoinedText(scrape_doc), LAMBDA c : IsAscii(c) /\ ~IsWhitespace(c))
        /\ Len(SplitWhitespace(scrape_ret.ret.val.content))
            = Len(SplitWhitespace(SelectSeq(JoinedText(scrape_doc), Kept)))
    /\ (text_ret.done /\ text_ret.ret.ok) => text_ret.ret.val = Trim(JoinedText(scrape_doc))

C16_Witness ==
    /\ Scraped /\ text_ret.done
    /\ Len(SelectContent(scrape_doc, Winner(scrape_doc))) = 2
    /\ Contains(JoinedText(scrape_doc), <<10>>)
    /\ ~Contains(scrape_ret.ret.val.content, <<10>>)
    /\ Contains(text_ret.ret.val, <<10>>)

\* C17: n searches made one after another on one engine take at least
\* n - 1 seconds in total, every search sleeping before it sends its
\* request (3 searches take at least 2 seconds).
C17_SearchesSpacedOut ==
    /\ searches >= 1 => clock >= searches - 1
    /\ spc \in {"sending", "reading"} => clock >= searches

C17_Witness ==
    /\ searches = 3 /\ spc = "done"
    /\ clock >= 2

\* C18: every record fetch_all returns has an empty metadata map and the
\* URL of one of the input URLs, whatever the fetched pages contain.
C18_FetchedWithoutMetadata ==
    returned.done =>
        \A k \in 1..Len(returned.contents) :
            /\ returned.contents[k].metadata = EmptyMap
            /\ \E i \in Tasks : returned.contents[k].url = urls[i]

C18_Witness ==
    /\ returned.done
    /\ Len(returned.contents) = 2
    /\ extract_metadata(ArticlePage) # EmptyMap
    /\ \E k \in 1..2 :
        returned.contents[k].content = extract_text(ArticlePage).val

===========================================================================
